---- MODULE Spec2Model ----
(***************************************************************************)
(* A model of win_thread_pool.c: a fixed set of worker threads consuming   *)
(* one singly linked task queue guarded by a CRITICAL_SECTION and a        *)
(* CONDITION_VARIABLE.  Every action is one statement (or one run of       *)
(* thread-local statements) of the source; the line numbers are those of   *)
(* src/win_thread_pool.c.                                                  *)
(*                                                                         *)
(* Threads: the workers 1..threadNum run thread_pool_work_loop; the Owner  *)
(* is the thread that created the pool (main): it may call                 *)
(* thread_pool_add_task, thread_pool_join_all and thread_pool_destroy; the *)
(* Producer is a second client thread that only calls                      *)
(* thread_pool_add_task.  The pool handle is single-use: destroy is called *)
(* once, while no other client is inside a call, and nothing is called     *)
(* after it.                                                               *)
(***************************************************************************)
EXTENDS Integers, Sequences, FiniteSets, TLC

\* ---- bounds of the model ------------------------------------------------
threadNum == 2          \* workers created by create_thread_pool(threadNum)
MaxTasks == 2           \* thread_pool_add_task calls over the pool's lifetime
MaxWaitFails == 1       \* failing SleepConditionVariableCS calls (SpecWaitFail)

\* ---- values -------------------------------------------------------------
NULL == 0
NoThread == NULL                      \* the critical section has no owner
POOL == "pool"                        \* the one non-null struct ThreadPool*
NoPool == "null"                      \* a NULL struct ThreadPool*
Workers == 1..threadNum
Owner == threadNum + 1
Producer == threadNum + 2
Clients == {Owner, Producer}
Tasks == 1..MaxTasks                  \* addresses malloc hands out for struct Task
\* the addresses malloc can hand out when threadNum + 1 records are submitted
Records == 1..(IF threadNum + 1 > MaxTasks THEN threadNum + 1 ELSE MaxTasks)
num == 39                             \* main's local int num

VARIABLES
    running,            \* pool->running
    taskQueueHead,      \* pool->taskQueueHead
    taskQueueTail,      \* pool->taskQueueTail
    next,               \* next[t]: the field t->next of record t
    allocated,          \* records malloc has returned so far
    freeCount,          \* freeCount[t]: how often free(t) was called
    poolFreed,          \* free(pool) was called
    acquired,           \* what create_thread_pool acquired besides the pool
                        \*   structure and has not been released
    taskArgs,           \* taskArgs[t]: the field t->taskArgs, <<kind, x>>:
                        \*   <<"null", 0>>, <<"heap", value>> (a buffer of
                        \*   its own) or <<"caller", c>> (client c's buffer)
    buf,                \* buf[c]: the content of client c's argument buffer
    mutexOwner,         \* owner of pool->taskQueueMutex, or NoThread
    cvWaiters,          \* workers blocked on pool->taskQueueConditionVariable
    pc,                 \* pc[w]: position of worker w in thread_pool_work_loop
    headTask,           \* headTask[w]: the local headTask of worker w
    cpc,                \* cpc[c]: position of client c inside the API call it runs
    temp,               \* temp[c]: the local temp of thread_pool_add_task
    jarg,               \* the argument of the owner's current thread_pool_join_all
    inDestroy,          \* the owner's join_all was called by thread_pool_destroy
    enqLog,             \* history: records in the order they were appended
    deqLog,             \* history: records in the order line 95 read them
    callCount,          \* history: callCount[t]: invocations of t's callable
    done,               \* history: records whose callable has returned
    firstJoin,          \* history: who first called join_all(pool): "none", "join_all", "destroy"
    atJoinCall,         \* history: records submitted before the first join_all
                        \*   whose callable has not returned yet
    atFlip,             \* history: records queued when running became 0
                        \*   whose callable has not returned yet
    joinReturned,       \* history: a join_all(pool) call has returned
    waitFails,          \* history: failed SleepConditionVariableCS calls
    passed,             \* history: passed[t]: what the caller passed for t
    observed            \* history: observed[t]: what t's callable received

poolVars == <<running, taskQueueHead, taskQueueTail, next, allocated, freeCount,
              poolFreed, mutexOwner, cvWaiters>>
workerVars == <<pc, headTask>>
clientVars == <<cpc, temp, jarg, inDestroy>>
histVars == <<enqLog, deqLog, callCount, done, firstJoin, atJoinCall, atFlip,
              joinReturned, waitFails>>
argVars == <<taskArgs, buf, passed, observed>>
vars == <<poolVars, acquired, workerVars, clientVars, argVars, histVars>>

\* ---- helpers ------------------------------------------------------------
Range(s) == {s[i] : i \in 1..Len(s)}

Bump(n) == IF n < 2 THEN n + 1 ELSE 2          \* history counters saturate at 2

RECURSIVE ChainFrom(_, _)
ChainFrom(p, fuel) ==
    IF p = NULL \/ fuel = 0 THEN <<>>
    ELSE <<p>> \o ChainFrom(next[p], fuel - 1)

\* the records reachable from taskQueueHead through next, in order
Queue == ChainFrom(taskQueueHead, MaxTasks + 1)

\* records whose thread_pool_add_task call has returned
Submitted ==
    {t \in Range(enqLog) :
        \A c \in Clients : ~(cpc[c] \in {"a_leave", "a_wake"} /\ temp[c] = t)}

\* argument pointers and what a callable sees through them
NullArg == <<"null", 0>>
Unseen == <<"none", 0>>

\* line 102 / line 227: the callable reads *(int*)args, or sees args == NULL
Deref(p) ==
    IF p[1] = "heap" THEN <<"int", p[2]>>
    ELSE IF p[1] = "caller" THEN <<"int", buf[p[2]]>>
    ELSE NullArg

\* create_thread_pool, lines 115-144: the state when it returns
Init ==
    /\ running = TRUE
    /\ taskQueueHead = NULL
    /\ taskQueueTail = NULL
    /\ next = [t \in Records |-> NULL]
    /\ allocated = {}
    /\ freeCount = [t \in Records |-> 0]
    /\ poolFreed = FALSE
    /\ mutexOwner = NoThread
    /\ cvWaiters = {}
    /\ pc = [w \in Workers |-> "enter"]
    /\ headTask = [w \in Workers |-> NULL]
    /\ cpc = [c \in Clients |-> "idle"]
    /\ temp = [c \in Clients |-> NULL]
    /\ jarg = NoPool
    /\ inDestroy = FALSE
    /\ enqLog = <<>>
    /\ deqLog = <<>>
    /\ callCount = [t \in Records |-> 0]
    /\ done = {}
    /\ firstJoin = "none"
    /\ atJoinCall = {}
    /\ atFlip = {}
    /\ joinReturned = FALSE
    /\ waitFails = 0
    /\ acquired = {"threads array", "thread handles", "critical section"}
    /\ taskArgs = [t \in Records |-> NullArg]
    /\ buf = [c \in Clients |-> num]
    /\ passed = [t \in Records |-> Unseen]
    /\ observed = [t \in Records |-> Unseen]

\* ---- the critical section and the condition variable ----------------------
\* EnterCriticalSection returns to thread th only when no other thread owns it
\* (faulty variant: the section excludes nobody)
CanEnterNoExclusion(th) == TRUE
CanEnter(th) == mutexOwner = NoThread \/ mutexOwner = th

\* LeaveCriticalSection by thread th.  By a thread that does not own the
\* section it is undefined: the section is left as it is, or released.
LeaveCS(th) ==
    IF mutexOwner = th THEN mutexOwner' = NoThread
    ELSE mutexOwner' \in {mutexOwner, NoThread}

\* line 82: the condition of the wait loop
WaitPredicate == taskQueueHead = NULL /\ running

\* line 89: the condition of the worker's return
\* (faulty variant: the worker returns as soon as running is 0)
ExitPredicateStopOnly == ~running
ExitPredicate == taskQueueHead = NULL /\ ~running

\* ---- thread_pool_work_loop, lines 74-110 ----------------------------------
\* line 79
W_Enter(w) ==
    /\ pc[w] = "enter"
    /\ CanEnter(w)
    /\ mutexOwner' = w
    /\ pc' = [pc EXCEPT ![w] = "while"]
    /\ UNCHANGED <<acquired, argVars, running, taskQueueHead, taskQueueTail, next, allocated, freeCount,
                   poolFreed, cvWaiters, headTask, clientVars, histVars>>

\* line 82
W_While(w) ==
    /\ pc[w] = "while"
    /\ pc' = [pc EXCEPT ![w] = IF WaitPredicate THEN "sleep" ELSE "if"]
    /\ UNCHANGED <<acquired, argVars, poolVars, headTask, clientVars, histVars>>

\* line 83: SleepConditionVariableCS releases the section and blocks, atomically
W_Sleep(w) ==
    /\ pc[w] = "sleep"
    /\ LeaveCS(w)
    /\ cvWaiters' = cvWaiters \cup {w}
    /\ pc' = [pc EXCEPT ![w] = "blocked"]
    /\ UNCHANGED <<acquired, argVars, running, taskQueueHead, taskQueueTail, next, allocated, freeCount,
                   poolFreed, headTask, clientVars, histVars>>

\* line 83: a spurious wake-up of a blocked worker
W_SpuriousWake(w) ==
    /\ pc[w] = "blocked"
    /\ w \in cvWaiters
    /\ cvWaiters' = cvWaiters \ {w}
    /\ pc' = [pc EXCEPT ![w] = "wake"]
    /\ UNCHANGED <<acquired, argVars, running, taskQueueHead, taskQueueTail, next, allocated, freeCount,
                   poolFreed, mutexOwner, headTask, clientVars, histVars>>

\* lines 82-83: the wait is the body of a while loop, so a worker whose wait
\* returned evaluates the loop condition again
\* (faulty variant: an if instead of the while, the worker goes on to line 89)
AfterWakeNoRecheck == "if"
AfterWake == "while"

\* line 83: the woken worker re-enters the section and the call returns TRUE
W_Reacquire(w) ==
    /\ pc[w] = "wake"
    /\ CanEnter(w)
    /\ mutexOwner' = w
    /\ pc' = [pc EXCEPT ![w] = AfterWake]
    /\ UNCHANGED <<acquired, argVars, running, taskQueueHead, taskQueueTail, next, allocated, freeCount,
                   poolFreed, cvWaiters, headTask, clientVars, histVars>>

\* line 83: the call returns FALSE; the section is owned again when it returns
W_SleepFails(w) ==
    /\ pc[w] \in {"sleep", "wake"}
    /\ waitFails < MaxWaitFails
    /\ CanEnter(w)
    /\ mutexOwner' = w
    /\ waitFails' = waitFails + 1
    /\ pc' = [pc EXCEPT ![w] = "failed"]
    /\ UNCHANGED <<acquired, argVars, running, taskQueueHead, taskQueueTail, next, allocated, freeCount,
                   poolFreed, cvWaiters, headTask, clientVars, enqLog, deqLog,
                   callCount, done, firstJoin, atJoinCall, atFlip, joinReturned>>

\* lines 84-85: report, LeaveCriticalSection, and back to the loop condition
W_FailLeave(w) ==
    /\ pc[w] = "failed"
    /\ LeaveCS(w)
    /\ pc' = [pc EXCEPT ![w] = "while"]
    /\ UNCHANGED <<acquired, argVars, running, taskQueueHead, taskQueueTail, next, allocated, freeCount,
                   poolFreed, cvWaiters, headTask, clientVars, histVars>>

\* lines 89-92
W_If(w) ==
    /\ pc[w] = "if"
    /\ IF ExitPredicate
       THEN /\ LeaveCS(w)
            /\ pc' = [pc EXCEPT ![w] = "exited"]
       ELSE /\ pc' = [pc EXCEPT ![w] = "pop"]
            /\ UNCHANGED mutexOwner
    /\ UNCHANGED <<acquired, argVars, running, taskQueueHead, taskQueueTail, next, allocated, freeCount,
                   poolFreed, cvWaiters, headTask, clientVars, histVars>>

\* line 95: headTask = pool->taskQueueHead
W_PopHead(w) ==
    /\ pc[w] = "pop"
    /\ headTask' = [headTask EXCEPT ![w] = taskQueueHead]
    /\ deqLog' = Append(deqLog, taskQueueHead)
    /\ pc' = [pc EXCEPT ![w] = "advance"]
    /\ UNCHANGED <<acquired, argVars, poolVars, clientVars, enqLog, callCount, done, firstJoin,
                   atJoinCall, atFlip, joinReturned, waitFails>>

\* line 96: pool->taskQueueHead = pool->taskQueueHead->next
\* (faulty variant: the head is not advanced)
NextOfHeadStuck == taskQueueHead
NextOfHead == IF taskQueueHead = NULL THEN NULL ELSE next[taskQueueHead]

W_Advance(w) ==
    /\ pc[w] = "advance"
    /\ taskQueueHead' = NextOfHead
    /\ pc' = [pc EXCEPT ![w] = "leave"]
    /\ UNCHANGED <<acquired, argVars, running, taskQueueTail, next, allocated, freeCount, poolFreed,
                   mutexOwner, cvWaiters, headTask, clientVars, histVars>>

\* line 99: the section is released before the callable is entered
\* (faulty variant: the callable is entered inside the section)
CallInsideCS(w) == UNCHANGED mutexOwner
LeaveBeforeCall(w) == LeaveCS(w)

\* lines 99-102: LeaveCriticalSection, then the callable is entered
W_LeaveAndCall(w) ==
    /\ pc[w] = "leave"
    /\ headTask[w] # NULL
    /\ LeaveBeforeCall(w)
    /\ callCount' = [callCount EXCEPT ![headTask[w]] = Bump(@)]
    /\ observed' = [observed EXCEPT ![headTask[w]] = Deref(taskArgs[headTask[w]])]
    /\ pc' = [pc EXCEPT ![w] = "intask"]
    /\ UNCHANGED <<acquired, taskArgs, buf, passed, running, taskQueueHead, taskQueueTail, next, allocated, freeCount,
                   poolFreed, cvWaiters, headTask, clientVars, enqLog, deqLog, done,
                   firstJoin, atJoinCall, atFlip, joinReturned, waitFails>>

\* line 102: the callable returns
W_Return(w) ==
    /\ pc[w] = "intask"
    /\ done' = done \cup {headTask[w]}
    /\ atJoinCall' = atJoinCall \ {headTask[w]}
    /\ atFlip' = atFlip \ {headTask[w]}
    /\ pc' = [pc EXCEPT ![w] = "free"]
    /\ UNCHANGED <<acquired, argVars, poolVars, headTask, clientVars, enqLog, deqLog, callCount,
                   firstJoin, joinReturned, waitFails>>

\* lines 105-106: free(headTask->taskArgs); free(headTask); and loop to line 79
W_Free(w) ==
    /\ pc[w] = "free"
    /\ freeCount' = [freeCount EXCEPT ![headTask[w]] = Bump(@)]
    /\ headTask' = [headTask EXCEPT ![w] = NULL]       \* the local's scope ends
    /\ pc' = [pc EXCEPT ![w] = "enter"]
    /\ UNCHANGED <<acquired, argVars, running, taskQueueHead, taskQueueTail, next, allocated, poolFreed,
                   mutexOwner, cvWaiters, clientVars, histVars>>

\* ---- thread_pool_add_task, lines 190-220 ---------------------------------
PoolValid == ~poolFreed /\ ~inDestroy

\* WakeConditionVariable: one blocked worker, if there is one, is woken
\* (faulty variant: the wake-up is lost)
WakeOneLost(ws) == ws = {}
WakeOne(ws) == IF cvWaiters = {} THEN ws = {} ELSE \E w \in cvWaiters : ws = {w}

\* WakeAllConditionVariable: every blocked worker is woken
\* (faulty variant: WakeConditionVariable is called instead)
WakeAllOnlyOne(ws) == WakeOne(ws)
WakeAll(ws) == ws = cvWaiters

Woken(ws) ==
    /\ cvWaiters' = cvWaiters \ ws
    /\ pc' = [w \in Workers |-> IF w \in ws THEN "wake" ELSE pc[w]]

\* line 191: the address malloc returns for the new record
NewRecord ==
    IF allocated = Records THEN NULL
    ELSE CHOOSE x \in Records \ allocated : \A y \in Records \ allocated : x <= y

\* lines 196-203: taskArgs of the new record, for the argument a ("null" or
\* "buf", the caller's buffer) of client c
\* (faulty variant: the caller's pointer is stored, nothing is copied)
CopyArgsShallow(c, a) == IF a = "null" THEN NullArg ELSE <<"caller", c>>
CopyArgs(c, a) == IF a = "null" THEN NullArg ELSE <<"heap", buf[c]>>

\* lines 190-203: the call thread_pool_add_task(pool, f, a, n) by client c,
\* while fewer than limit records were allocated; the record is allocated
\* and filled in.  n is "sizeof(num)" or "sizeof(NULL)"; with a buffer the
\* caller passes the buffer's size.
AddTaskCall(c, a, n, limit) ==
    /\ cpc[c] = "idle"
    /\ PoolValid
    /\ Cardinality(allocated) < limit
    /\ a = "buf" => n = "sizeof(num)"
    /\ LET t == NewRecord
       IN /\ allocated' = allocated \cup {t}
          /\ next' = [next EXCEPT ![t] = NULL]
          /\ taskArgs' = [taskArgs EXCEPT ![t] = CopyArgs(c, a)]
          /\ passed' = [passed EXCEPT ![t] =
                            IF a = "null" THEN NullArg ELSE <<"int", buf[c]>>]
          /\ temp' = [temp EXCEPT ![c] = t]
    /\ cpc' = [cpc EXCEPT ![c] = "a_enter"]
    /\ UNCHANGED <<acquired, buf, observed, running, taskQueueHead, taskQueueTail,
                   freeCount, poolFreed, mutexOwner, cvWaiters, workerVars, jarg,
                   inDestroy, histVars>>

\* lines 234-235: the calls of main: the first passes NULL and sizeof(NULL),
\* the following ones pass &num and sizeof(num)
MainArg == IF NewRecord = 1 THEN "null" ELSE "buf"
MainSize == IF NewRecord = 1 THEN "sizeof(NULL)" ELSE "sizeof(num)"

A_Malloc(c) == AddTaskCall(c, MainArg, MainSize, MaxTasks)

\* line 205
A_Enter(c) ==
    /\ cpc[c] = "a_enter"
    /\ CanEnter(c)
    /\ mutexOwner' = c
    /\ cpc' = [cpc EXCEPT ![c] = "a_append"]
    /\ UNCHANGED <<acquired, argVars, running, taskQueueHead, taskQueueTail, next, allocated, freeCount,
                   poolFreed, cvWaiters, workerVars, temp, jarg, inDestroy, histVars>>

\* lines 208-214: the record is linked behind taskQueueTail
\* (faulty variant: the record is linked in front of taskQueueHead)
AppendAtHead(t) ==
    /\ taskQueueHead' = t
    /\ taskQueueTail' = IF taskQueueHead = NULL THEN t ELSE taskQueueTail
    /\ next' = [next EXCEPT ![t] = taskQueueHead]
\* (faulty variant: line 213 is missing, taskQueueTail stays behind)
AppendTailKept(t) ==
    IF taskQueueHead = NULL
    THEN /\ taskQueueHead' = t
         /\ taskQueueTail' = t
         /\ UNCHANGED next
    ELSE /\ next' = [next EXCEPT ![taskQueueTail] = t]
         /\ UNCHANGED <<taskQueueHead, taskQueueTail>>
AppendTask(t) ==
    IF taskQueueHead = NULL
    THEN /\ taskQueueHead' = t
         /\ taskQueueTail' = t
         /\ UNCHANGED next
    ELSE /\ next' = [next EXCEPT ![taskQueueTail] = t]
         /\ taskQueueTail' = t
         /\ UNCHANGED taskQueueHead

A_Append(c) ==
    /\ cpc[c] = "a_append"
    /\ AppendTask(temp[c])
    /\ enqLog' = Append(enqLog, temp[c])
    /\ cpc' = [cpc EXCEPT ![c] = "a_leave"]
    /\ UNCHANGED <<acquired, argVars, running, allocated, freeCount, poolFreed, mutexOwner, cvWaiters,
                   workerVars, temp, jarg, inDestroy, deqLog, callCount, done,
                   firstJoin, atJoinCall, atFlip, joinReturned, waitFails>>

\* line 216
A_Leave(c) ==
    /\ cpc[c] = "a_leave"
    /\ LeaveCS(c)
    /\ cpc' = [cpc EXCEPT ![c] = "a_wake"]
    /\ UNCHANGED <<acquired, argVars, running, taskQueueHead, taskQueueTail, next, allocated, freeCount,
                   poolFreed, cvWaiters, workerVars, temp, jarg, inDestroy, histVars>>

\* line 219, and the return
A_Wake(c) ==
    /\ cpc[c] = "a_wake"
    /\ \E ws \in SUBSET cvWaiters : WakeOne(ws) /\ Woken(ws)
    /\ cpc' = [cpc EXCEPT ![c] = "idle"]
    /\ temp' = [temp EXCEPT ![c] = NULL]
    /\ UNCHANGED <<acquired, argVars, running, taskQueueHead, taskQueueTail, next, allocated, freeCount,
                   poolFreed, mutexOwner, headTask, jarg, inDestroy, histVars>>

\* ---- thread_pool_join_all, lines 149-165 ----------------------------------
\* where the owner continues when join_all returns
AfterJoin == IF inDestroy THEN "d_while" ELSE "idle"

\* the call thread_pool_join_all(p) from the owner's program
J_Call(p) ==
    /\ cpc[Owner] = "idle"
    /\ PoolValid
    /\ jarg' = p
    /\ cpc' = [cpc EXCEPT ![Owner] = "j_check"]
    /\ IF p # NoPool /\ firstJoin = "none"
       THEN firstJoin' = "join_all" /\ atJoinCall' = Submitted \ done
       ELSE UNCHANGED <<firstJoin, atJoinCall>>
    /\ UNCHANGED <<acquired, argVars, poolVars, workerVars, temp, inDestroy, enqLog, deqLog, callCount,
                   done, atFlip, joinReturned, waitFails>>

\* lines 151-153
\* (faulty variant: no early return)
NothingToJoinNever == FALSE
NothingToJoin == jarg = NoPool \/ ~running

J_Check ==
    /\ cpc[Owner] = "j_check"
    /\ IF NothingToJoin
       THEN /\ cpc' = [cpc EXCEPT ![Owner] = AfterJoin]
            /\ joinReturned' = (joinReturned \/ jarg # NoPool)
            /\ jarg' = NoPool                          \* the parameter's scope ends
       ELSE /\ cpc' = [cpc EXCEPT ![Owner] = "j_enter"]
            /\ UNCHANGED <<joinReturned, jarg>>
    /\ UNCHANGED <<acquired, argVars, poolVars, workerVars, temp, inDestroy, enqLog, deqLog,
                   callCount, done, firstJoin, atJoinCall, atFlip, waitFails>>

\* line 156
J_Enter ==
    /\ cpc[Owner] = "j_enter"
    /\ CanEnter(Owner)
    /\ mutexOwner' = Owner
    /\ cpc' = [cpc EXCEPT ![Owner] = "j_set"]
    /\ UNCHANGED <<acquired, argVars, running, taskQueueHead, taskQueueTail, next, allocated, freeCount,
                   poolFreed, cvWaiters, workerVars, temp, jarg, inDestroy, histVars>>

\* line 157
J_Set ==
    /\ cpc[Owner] = "j_set"
    /\ running' = FALSE
    /\ atFlip' = Range(Queue) \ done
    /\ cpc' = [cpc EXCEPT ![Owner] = "j_leave"]
    /\ UNCHANGED <<acquired, argVars, taskQueueHead, taskQueueTail, next, allocated, freeCount, poolFreed,
                   mutexOwner, cvWaiters, workerVars, temp, jarg, inDestroy, enqLog,
                   deqLog, callCount, done, firstJoin, atJoinCall, joinReturned,
                   waitFails>>

\* line 158
J_Leave ==
    /\ cpc[Owner] = "j_leave"
    /\ LeaveCS(Owner)
    /\ cpc' = [cpc EXCEPT ![Owner] = "j_wakeall"]
    /\ UNCHANGED <<acquired, argVars, running, taskQueueHead, taskQueueTail, next, allocated, freeCount,
                   poolFreed, cvWaiters, workerVars, temp, jarg, inDestroy, histVars>>

\* line 161
J_WakeAll ==
    /\ cpc[Owner] = "j_wakeall"
    /\ \E ws \in SUBSET cvWaiters : WakeAll(ws) /\ Woken(ws)
    /\ cpc' = [cpc EXCEPT ![Owner] = "j_wait"]
    /\ UNCHANGED <<acquired, argVars, running, taskQueueHead, taskQueueTail, next, allocated, freeCount,
                   poolFreed, mutexOwner, headTask, temp, jarg, inDestroy, histVars>>

\* line 164: WaitForMultipleObjects(threadNum, threads, bWaitAll = 1, INFINITE)
\* returns once every worker thread has terminated
\* (faulty variant: bWaitAll = 0)
AnyExited == \E w \in Workers : pc[w] = "exited"
AllExited == \A w \in Workers : pc[w] = "exited"

J_Wait ==
    /\ cpc[Owner] = "j_wait"
    /\ AllExited
    /\ cpc' = [cpc EXCEPT ![Owner] = AfterJoin]
    /\ joinReturned' = TRUE
    /\ jarg' = NoPool                                  \* the parameter's scope ends
    /\ UNCHANGED <<acquired, argVars, poolVars, workerVars, temp, inDestroy, enqLog, deqLog,
                   callCount, done, firstJoin, atJoinCall, atFlip, waitFails>>

\* ---- thread_pool_destroy, lines 170-184 -----------------------------------
\* line 171: the call, and its call of thread_pool_join_all(pool)
\* (faulty variant: destroy sweeps without joining)
JoinSkipped == "d_while"
JoinFirst == "j_check"

D_Call ==
    /\ cpc[Owner] = "idle"
    /\ cpc[Producer] = "idle"
    /\ PoolValid
    /\ inDestroy' = TRUE
    /\ jarg' = POOL
    /\ cpc' = [cpc EXCEPT ![Owner] = JoinFirst]
    /\ IF firstJoin = "none"
       THEN firstJoin' = "destroy" /\ atJoinCall' = Submitted \ done
       ELSE UNCHANGED <<firstJoin, atJoinCall>>
    /\ UNCHANGED <<acquired, argVars, poolVars, workerVars, temp, enqLog, deqLog, callCount, done,
                   atFlip, joinReturned, waitFails>>

\* line 175
D_While ==
    /\ cpc[Owner] = "d_while"
    /\ cpc' = [cpc EXCEPT ![Owner] = IF taskQueueHead # NULL THEN "d_free" ELSE "d_pool"]
    /\ UNCHANGED <<acquired, argVars, poolVars, workerVars, temp, jarg, inDestroy, histVars>>

\* lines 176-180: the head record is freed and taskQueueHead moves to its successor
\* (faulty variant: the sweep unlinks the record without freeing it)
FreedBySweepNone(t) == freeCount
FreedBySweep(t) == [freeCount EXCEPT ![t] = Bump(@)]

D_Free ==
    /\ cpc[Owner] = "d_free"
    /\ freeCount' = FreedBySweep(taskQueueHead)
    /\ taskQueueHead' = next[taskQueueHead]
    /\ cpc' = [cpc EXCEPT ![Owner] = "d_while"]
    /\ UNCHANGED <<acquired, argVars, running, taskQueueTail, next, allocated, poolFreed, mutexOwner,
                   cvWaiters, workerVars, temp, jarg, inDestroy, histVars>>

\* line 183, and the return
D_Pool ==
    /\ cpc[Owner] = "d_pool"
    /\ poolFreed' = TRUE
    /\ inDestroy' = FALSE
    /\ cpc' = [cpc EXCEPT ![Owner] = "destroyed"]
    /\ UNCHANGED <<acquired, argVars, running, taskQueueHead, taskQueueTail, next, allocated, freeCount,
                   mutexOwner, cvWaiters, workerVars, temp, jarg, histVars>>

\* ---- specifications -------------------------------------------------------
\* the steps of worker w that the worker itself takes
WorkerStep(w) ==
    \/ W_Enter(w)
    \/ W_While(w)
    \/ W_Sleep(w)
    \/ W_Reacquire(w)
    \/ W_If(w)
    \/ W_PopHead(w)
    \/ W_Advance(w)
    \/ W_LeaveAndCall(w)
    \/ W_Return(w)
    \/ W_Free(w)

\* the steps inside an API call that client c has started
ClientStep(c) ==
    \/ A_Enter(c)
    \/ A_Append(c)
    \/ A_Leave(c)
    \/ A_Wake(c)

OwnerStep ==
    \/ J_Check
    \/ J_Enter
    \/ J_Set
    \/ J_Leave
    \/ J_WakeAll
    \/ J_Wait
    \/ D_While
    \/ D_Free
    \/ D_Pool

\* the calls the client programs choose to make
ClientCall ==
    \/ \E c \in Clients : A_Malloc(c)
    \/ \E p \in {NoPool, POOL} : J_Call(p)
    \/ D_Call

Next ==
    \/ \E w \in Workers : WorkerStep(w)
    \/ \E w \in Workers : W_SpuriousWake(w)
    \/ \E c \in Clients : ClientStep(c)
    \/ OwnerStep
    \/ ClientCall

\* SleepConditionVariableCS never fails
Spec == Init /\ [][Next]_vars

\* fair scheduling: a thread that can take a step of its own infinitely often
\* takes one; every callable returns (W_Return is a worker step).  Spurious
\* wake-ups and the clients' decisions to call are not forced.
Fairness ==
    /\ \A w \in Workers : SF_vars(WorkerStep(w))
    /\ \A c \in Clients : SF_vars(ClientStep(c))
    /\ SF_vars(OwnerStep)

FairSpec == Spec /\ Fairness

\* SleepConditionVariableCS may fail, at most MaxWaitFails times
NextWaitFail ==
    \/ Next
    \/ \E w \in Workers : W_SleepFails(w)
    \/ \E w \in Workers : W_FailLeave(w)

SpecWaitFail == Init /\ [][NextWaitFail]_vars

\* the values the caller's buffer takes: num, and one other value
BufValues == {num, num + 1}

\* the caller writes its buffer, between two of its calls
C_WriteBuf(c) ==
    /\ cpc[c] = "idle"
    /\ \E v \in BufValues \ {buf[c]} : buf' = [buf EXCEPT ![c] = v]
    /\ UNCHANGED <<acquired, taskArgs, passed, observed, poolVars, workerVars,
                   clientVars, histVars>>

\* thread_pool_add_task called with any argument and any size
A_MallocAny(c) ==
    \E a \in {"null", "buf"}, n \in {"sizeof(NULL)", "sizeof(num)"} :
        AddTaskCall(c, a, n, MaxTasks)

\* a running pool and a producer that passes any argument and writes its
\* buffer between calls
NextArgs ==
    \/ \E w \in Workers : WorkerStep(w)
    \/ \E w \in Workers : W_SpuriousWake(w)
    \/ ClientStep(Producer)
    \/ A_MallocAny(Producer)
    \/ C_WriteBuf(Producer)

SpecArgs == Init /\ [][NextArgs]_vars

\* a running pool and a producer that submits one task more than there are
\* workers, so that a submission can meet a pool whose workers all execute
A_MallocBusy(c) == AddTaskCall(c, MainArg, MainSize, threadNum + 1)

NextBusy ==
    \/ \E w \in Workers : WorkerStep(w)
    \/ \E w \in Workers : W_SpuriousWake(w)
    \/ ClientStep(Producer)
    \/ A_MallocBusy(Producer)

SpecBusy == Init /\ [][NextBusy]_vars

\* ---- properties ------------------------------------------------------------
IsPrefix(a, b) == Len(a) <= Len(b) /\ \A i \in 1..Len(a) : a[i] = b[i]

C6_JoinWaitsForWorkers == joinReturned => \A w \in Workers : pc[w] = "exited"

\* join_all has returned to the owner's program after tasks were executed
C6_Witness ==
    /\ joinReturned
    /\ cpc[Owner] = "idle"
    /\ done # {}

C8_JoinIdempotent ==
    [][(/\ cpc[Owner] = "j_check"
        /\ cpc'[Owner] # "j_check"
        /\ (jarg = NoPool \/ ~running))
       => (/\ cpc'[Owner] = AfterJoin
           /\ UNCHANGED <<poolVars, workerVars>>)]_vars

\* a second join_all(pool), called from the owner's program after the first
\* has returned, is at line 151
C8_Witness ==
    /\ cpc[Owner] = "j_check"
    /\ jarg = POOL
    /\ ~inDestroy
    /\ joinReturned
    /\ ~running

\* C9: from the moment destroy starts its sweep, every worker has returned
\* from thread_pool_work_loop.
C9_DestroyJoinsFirst ==
    (cpc[Owner] \in {"d_while", "d_free", "d_pool", "destroyed"} \/ poolFreed)
        => \A w \in Workers : pc[w] = "exited"

\* destroy starts its sweep, join_all had not been called before destroy, and
\* the workers have executed every record
C9_Witness ==
    /\ cpc[Owner] = "d_while"
    /\ firstJoin = "destroy"
    /\ done = Tasks

C11_AllReleased == cpc[Owner] = "destroyed" => (poolFreed /\ acquired = {})

\* C12: once a join_all(pool) call has returned, no record is dequeued and no
\* callable is entered any more; a record that add_task appends is linked in
\* the queue, and a queued record stays queued until the sweep of destroy
\* frees it, never having been executed.
C12_LateTasksNeverRun ==
    [][joinReturned =>
        /\ deqLog' = deqLog
        /\ callCount' = callCount
        /\ \A c \in Clients :
              (cpc[c] = "a_append" /\ cpc'[c] = "a_leave") => temp[c] \in Range(Queue)'
        /\ \A t \in Range(Queue) :
              \/ t \in Range(Queue)'
              \/ /\ cpc[Owner] = "d_free"
                 /\ t = taskQueueHead
                 /\ callCount[t] = 0
                 /\ freeCount[t] = 0 /\ freeCount'[t] = 1]_vars

\* the owner called add_task after its join_all had returned, and the record
\* is linked in the queue
C12_Witness ==
    /\ joinReturned
    /\ ~running
    /\ cpc[Owner] = "a_wake"
    /\ temp[Owner] \in Range(Queue)

\* C13: the callable receives the value the caller's argument had when
\* thread_pool_add_task was called, whatever the caller writes to its buffer
\* afterwards; an absent argument reaches the callable as absent, whatever
\* size was passed.
C13_ArgumentIsolation ==
    \A t \in Records : observed[t] # Unseen => observed[t] = passed[t]

\* a callable is running on the value its caller passed, and the caller's
\* buffer holds another value by now
C13_Witness ==
    \E w \in Workers :
        /\ pc[w] = "intask"
        /\ passed[headTask[w]] = <<"int", num>>
        /\ observed[headTask[w]] = <<"int", num>>
        /\ buf[Producer] # num

\* the places where a thread reads or writes running, taskQueueHead or
\* taskQueueTail: lines 82, 89, 95, 96 in the worker, lines 208-213 in
\* add_task, lines 151 (after pool == NULL was false) and 157 in join_all,
\* lines 175-179 in destroy
WorkerAccess(w) == pc[w] \in {"while", "if", "pop", "advance"}
ClientAccess(c) == cpc[c] = "a_append"
OwnerAccess ==
    \/ cpc[Owner] = "j_check" /\ jarg # NoPool
    \/ cpc[Owner] \in {"j_set", "d_while", "d_free"}

\* C14: a thread that reads or writes running, taskQueueHead or taskQueueTail,
\* in the worker loop, in add_task, in join_all or in destroy, holds
\* taskQueueMutex at that moment.
C14_LockDiscipline ==
    /\ \A w \in Workers : WorkerAccess(w) => mutexOwner = w
    /\ \A c \in Clients : ClientAccess(c) => mutexOwner = c
    /\ OwnerAccess => mutexOwner = Owner

C16_ExecutionUnlocked ==
    /\ \A w \in Workers : pc[w] \in {"intask", "free"} => mutexOwner # w
    /\ (\A w \in Workers : pc[w] = "intask") =>
          \A c \in Clients : cpc[c] \in {"a_enter", "a_append", "a_leave", "a_wake"}
                                 => ENABLED ClientStep(c)
    /\ \A w \in Workers :
          (/\ pc[w] = "enter"
           /\ \A v \in Workers \ {w} : pc[v] = "intask"
           /\ mutexOwner \notin Clients) => ENABLED W_Enter(w)

\* every worker executes a callable and the producer, inside add_task, has
\* taken the lock
C16_Witness ==
    /\ \A w \in Workers : pc[w] = "intask"
    /\ cpc[Producer] = "a_append"
    /\ mutexOwner = Producer

\* C17: after SleepConditionVariableCS has reported a failure in a worker,
\* the pool keeps its guarantees: no record is dequeued twice or out of
\* order, and no callable is entered twice.
C17_WaitFailureSafe ==
    waitFails > 0 =>
        /\ \A i, j \in 1..Len(deqLog) : i # j => deqLog[i] # deqLog[j]
        /\ IsPrefix(deqLog, enqLog)
        /\ \A t \in Records : callCount[t] <= 1

InsideCS ==
    {w \in Workers : pc[w] \in {"while", "sleep", "failed", "if", "pop", "advance", "leave"}}
        \cup {c \in Clients : cpc[c] \in {"a_append", "a_leave", "j_set", "j_leave"}}

\* C20: a worker that is about to call SleepConditionVariableCS (line 83) or
\* LeaveCriticalSection (lines 85, 90, 99), or that pops taskQueueHead (lines
\* 95-96), owns taskQueueMutex, also on the iteration after a failed wait;
\* and at most one thread is inside the queue critical section.
C20_LockBalanced ==
    /\ \A w \in Workers :
          pc[w] \in {"sleep", "failed", "if", "pop", "advance", "leave"} => mutexOwner = w
    /\ Cardinality(InsideCS) <= 1

====
